---- MODULE Spec2Model ----
(***************************************************************************)
(* Model of the document ingestion engine of the compliance ingestion     *)
(* service: IngestionEngine (services/ingestion_engine.py) over the       *)
(* StorageManager (core/storage.py).                                      *)
(*                                                                         *)
(* Modelling conventions.                                                  *)
(*  - A content hash is the SHA-256 of the fetched bytes; the model uses  *)
(*    one abstract value per distinct byte string (no collisions).        *)
(*  - uuid4() yields a fresh id; the id of the document issued by the     *)
(*    i-th invocation of _process_document is i.                          *)
(*  - A metadata file is modelled by the fields check_duplicate reads and *)
(*    by the YAML node its doc_id was written as: yaml.dump writes a      *)
(*    uuid.UUID value as a python/object node, which yaml.safe_load does  *)
(*    not construct.                                                      *)
(*  - A write either completes or raises; logging calls are left out.    *)
(*  - Path.glob yields directory entries in no specified order, so the    *)
(*    first matching file of a scan is any matching file.                 *)
(***************************************************************************)
EXTENDS Integers, Sequences, FiniteSets, TLC

\* ---------------------------------------------------------------- bounds
MaxTasks == 2

MaxSources == 2

Tasks == 1..MaxTasks

\* Names of the registered sources that have a concrete fetcher.
SourceNames == {"nist", "fpf"}

Contents == {"h1", "h2"}

Formats == {"pdf", "html", "image", "txt"}

NoId == 0

\* The document id of a metadata file that is in metadata_dir before the
\* engine starts (it is not issued by any modelled invocation).
SeedId == MaxTasks + 1

\* ------------------------------------------------------------- settings
\* Settings defaults (core/config.py); get_settings() caches one instance.
ocr_enabled == TRUE

enable_deduplication == TRUE

\* ---------------------------------------------------------------- state
VARIABLES
    raw_files,              \* raw_dir/<source>/<doc_id>.<ext>
    parsed_files,           \* parsed_dir/<source>/<doc_id>.txt
    metadata_files,         \* metadata_dir/<source>/<doc_id>.yaml
    task,                   \* one _process_document invocation per slot
    job,                    \* the IngestionJob handed to run_ingestion_job
    run_pc,                 \* position of run_ingestion_job
    cursor,                 \* index into job.source_ids of the for loop
    task_results,           \* the list run_ingestion_job accumulates
    fetch,                  \* one fetch_documents call of a fetcher
    parse,                  \* one _parse_document call of the engine
    chunk,                  \* one chunking of a text by the ContentProcessor
    quality,                \* one analyze_content_quality call
    browser,                \* one rendered-DOM extraction with a headless browser
    pager,                  \* one client paginating get_document_chunks
    workflow                \* one document in the event-driven workflow

job_vars == <<job, run_pc, cursor, task_results>>

\* The state of the components that are examined on their own.
component_vars == <<fetch, parse, chunk, quality, browser, pager, workflow>>

engine_vars == <<raw_files, parsed_files, metadata_files, task, job, run_pc, cursor, task_results>>

vars == <<raw_files, parsed_files, metadata_files, task, job, run_pc, cursor, task_results,
          fetch, parse, chunk, quality, browser, pager, workflow>>

\* Local state of a slot before _process_document is entered.
IdleTask ==
    [pc |-> "idle", source |-> "nist", content |-> "h1", doc_id |-> NoId,
     doc_status |-> "none", doc_error |-> "none",
     parse_success |-> FALSE, parse_calls |-> 0,
     status |-> "running", success |-> FALSE, error_message |-> "none",
     document_id |-> NoId, duplicate_of |-> NoId]

\* ------------------------------------------------------- StorageManager
\* The YAML nodes a doc_id can be stored as in a metadata file.
DocIdNodes == {"str", "python_object"}

\* save_metadata, lines 104-108: metadata.dict() keeps doc_id as a
\* uuid.UUID object, which yaml.dump (the full Dumper, no representer for
\* UUID) writes as a !!python/object:uuid.UUID node.
yaml_dump(doc_id, source_name, file_hash) ==
    [doc_id |-> doc_id, source_name |-> source_name, file_hash |-> file_hash,
     doc_id_node |-> "python_object"]

\* check_duplicate, lines 181-195: yaml.safe_load constructs standard tags
\* only (a python/object node raises ConstructorError) and UUID(...) takes
\* a str; the except clause passes over a file that cannot be read so.
safe_load(metadata_file) == metadata_file.doc_id_node = "str"

\* Variant of MatchingRecords that scans the records of every source.
MatchingRecordsAnySource(content_hash, source_name) ==
    {r \in metadata_files : safe_load(r) /\ r.file_hash = content_hash}

\* The *.yaml files of metadata_dir/<source_name> that load and whose
\* file_hash matches.
MatchingRecords(content_hash, source_name) ==
    {r \in metadata_files :
        r.source_name = source_name /\ safe_load(r) /\ r.file_hash = content_hash}

\* StorageManager.check_duplicate: the set of values the scan can return
\* (NoId stands for None).
check_duplicate(content_hash, source_name) ==
    IF ~enable_deduplication THEN {NoId}
    ELSE IF MatchingRecords(content_hash, source_name) = {} THEN {NoId}
    ELSE {r.doc_id : r \in MatchingRecords(content_hash, source_name)}

\* ------------------------------------------------------------- parsers
\* Variant of Parsers with the OCR parser ahead of the PDF parser.
ParsersOcrFirst == <<"OCRParser", "PDFParser", "HTMLParser">>

\* IngestionEngine.__init__: self.parsers = [PDFParser(), HTMLParser(), OCRParser()]
Parsers == <<"PDFParser", "HTMLParser", "OCRParser">>

can_parse(parser, fmt) ==
    CASE parser = "PDFParser"  -> fmt = "pdf"
      [] parser = "HTMLParser" -> fmt = "html"
      [] parser = "OCRParser"  -> ocr_enabled /\ fmt \in {"pdf", "image"}

\* IngestionEngine._parse_document from parser i on; ok[p] tells whether
\* parser p returns a ParseResult with success=true for this content.
RECURSIVE ParseFrom(_, _, _)
ParseFrom(i, fmt, ok) ==
    IF i > Len(Parsers)
    THEN [success |-> FALSE, error_message |-> "no_parser_succeeded", calls |-> 0]
    ELSE IF can_parse(Parsers[i], fmt)
         THEN IF ok[Parsers[i]]
              THEN [success |-> TRUE, error_message |-> "none", calls |-> 1]
              ELSE [ParseFrom(i + 1, fmt, ok) EXCEPT !.calls = @ + 1]
         ELSE ParseFrom(i + 1, fmt, ok)

_parse_document(fmt, ok) == ParseFrom(1, fmt, ok)

ParserOutcomes == [{Parsers[i] : i \in 1..Len(Parsers)} -> BOOLEAN]

\* ------------------------------------------------ _process_document steps
\* Lines 158-194: TaskResult created; a failed fetch ends the task at once,
\* otherwise the document id is issued and the content hash computed.
_process_document(t, source, fetch_success, content) ==
    /\ task[t].pc = "idle"
    /\ \A u \in Tasks : u < t => task[u].pc # "idle"
    /\ IF ~fetch_success
       THEN task' = [task EXCEPT ![t] = [IdleTask EXCEPT
                        !.pc = "done", !.source = source,
                        !.status = "failed", !.error_message = "fetch_error"]]
       ELSE task' = [task EXCEPT ![t] = [IdleTask EXCEPT
                        !.pc = "check", !.source = source, !.content = content,
                        !.doc_id = t]]
    /\ UNCHANGED <<raw_files, parsed_files, metadata_files>>

\* _process_document called on its own (a caller outside a modelled job run,
\* e.g. another engine instance working on the same storage).
Start(t, source, fetch_success, content) ==
    /\ run_pc = "none"
    /\ _process_document(t, source, fetch_success, content)
    /\ UNCHANGED <<job_vars, component_vars>>

\* As Start, when invocations do not overlap.
NoTaskInFlight == \A u \in Tasks : task[u].pc \in {"idle", "done"}

StartSeq(t, source, fetch_success, content) ==
    /\ NoTaskInFlight
    /\ Start(t, source, fetch_success, content)

\* Lines 196-214: dedup check; on a hit the task returns, otherwise the
\* Document object is created in status FETCHING.
CheckDuplicate(t) ==
    /\ task[t].pc = "check"
    /\ \E existing_doc_id \in check_duplicate(task[t].content, task[t].source) :
          IF existing_doc_id # NoId
          THEN task' = [task EXCEPT ![t].pc = "done",
                                    ![t].status = "completed",
                                    ![t].success = TRUE,
                                    ![t].duplicate_of = existing_doc_id]
          ELSE task' = [task EXCEPT ![t].pc = "save_raw",
                                    ![t].doc_status = "fetching"]
    /\ UNCHANGED <<raw_files, parsed_files, metadata_files>>
    /\ UNCHANGED <<job_vars, component_vars>>

\* Variant of Raise in which the except clause returns the TaskResult as
\* it stands, without marking it failed.
RaiseUnrecorded(t) == [task EXCEPT ![t].pc = "done"]

\* The except clause of lines 276-281.
Raise(t) ==
    [task EXCEPT ![t].pc = "done", ![t].status = "failed",
                 ![t].success = FALSE, ![t].error_message = "io_error"]

\* Lines 216-224: save_raw_content, then status PARSING.
SaveRaw(t) ==
    /\ task[t].pc = "save_raw"
    /\ \/ /\ raw_files' = raw_files \cup {[doc_id |-> task[t].doc_id, source_name |-> task[t].source]}
          /\ task' = [task EXCEPT ![t].pc = "parse", ![t].doc_status = "parsing"]
       \/ /\ task' = Raise(t)
          /\ UNCHANGED raw_files
    /\ UNCHANGED <<parsed_files, metadata_files>>
    /\ UNCHANGED <<job_vars, component_vars>>

\* Lines 226-237 and 250-252: the parse and the branch on its result.
Parse(t) ==
    /\ task[t].pc = "parse"
    /\ \E fmt \in Formats, ok \in ParserOutcomes :
          LET parse_result == _parse_document(fmt, ok) IN
          IF parse_result.success
          THEN task' = [task EXCEPT ![t].pc = "save_parsed",
                                    ![t].parse_success = TRUE,
                                    ![t].parse_calls = parse_result.calls]
          ELSE task' = [task EXCEPT ![t].pc = "save_metadata",
                                    ![t].parse_calls = parse_result.calls,
                                    ![t].doc_status = "failed",
                                    ![t].doc_error = parse_result.error_message]
    /\ UNCHANGED <<raw_files, parsed_files, metadata_files>>
    /\ UNCHANGED <<job_vars, component_vars>>

\* Lines 239-249: save_parsed_content, then status PROCESSED.
SaveParsed(t) ==
    /\ task[t].pc = "save_parsed"
    /\ \/ /\ parsed_files' = parsed_files \cup {[doc_id |-> task[t].doc_id, source_name |-> task[t].source]}
          /\ task' = [task EXCEPT ![t].pc = "save_metadata", ![t].doc_status = "processed"]
       \/ /\ task' = Raise(t)
          /\ UNCHANGED parsed_files
    /\ UNCHANGED <<raw_files, metadata_files>>
    /\ UNCHANGED <<job_vars, component_vars>>

\* Lines 254-274: save_metadata, then the TaskResult is completed.
SaveMetadata(t) ==
    /\ task[t].pc = "save_metadata"
    /\ \/ /\ metadata_files' = metadata_files \cup
                {yaml_dump(task[t].doc_id, task[t].source, task[t].content)}
          /\ task' = [task EXCEPT ![t].pc = "done",
                                  ![t].document_id = task[t].doc_id,
                                  ![t].status = "completed",
                                  ![t].success = (task[t].doc_status = "processed")]
       \/ /\ task' = Raise(t)
          /\ UNCHANGED metadata_files
    /\ UNCHANGED <<raw_files, parsed_files>>
    /\ UNCHANGED <<job_vars, component_vars>>

\* ------------------------------------------------------ source registry
\* SourceRegistry contents: source id -> SourceConfig (name, is_active).
\* "misc" matches no key of fetcher_map; "id_gone" is not registered.
Registry ==
    [id_nist |-> [name |-> "nist", is_active |-> TRUE],
     id_fpf  |-> [name |-> "fpf",  is_active |-> TRUE],
     id_misc |-> [name |-> "misc", is_active |-> TRUE],
     id_off  |-> [name |-> "nist", is_active |-> FALSE]]

SourceIds == DOMAIN Registry \cup {"id_gone"}

\* IngestionEngine._get_fetcher_class
_get_fetcher_class(name) ==
    IF name \in {"nist", "eu_ai_act", "fpf"} THEN name ELSE "BaseFetcher"

RECURSIVE SeqsUpTo(_, _)
SeqsUpTo(S, n) ==
    IF n = 0 THEN {<<>>}
    ELSE SeqsUpTo(S, n - 1) \cup {Append(q, x) : q \in {r \in SeqsUpTo(S, n - 1) : Len(r) = n - 1}, x \in S}

\* The slot the next document of the job is processed in.
LastStarted == Cardinality({t \in Tasks : task[t].pc # "idle"})

CountIf(results, wanted) == Cardinality({i \in 1..Len(results) : results[i].success = wanted})

\* ----------------------------------------------------- run_ingestion_job
\* Line 46: job.update_status(RUNNING).
JobStart ==
    /\ run_pc = "pending"
    /\ job' = [job EXCEPT !.status = "running"]
    /\ run_pc' = "loop"
    /\ UNCHANGED <<raw_files, parsed_files, metadata_files, task, cursor, task_results, component_vars>>

\* Lines 60-69: the head of the loop over job.source_ids; an unregistered
\* or inactive source is passed over.
SelectSource ==
    /\ run_pc = "loop"
    /\ cursor <= Len(job.source_ids)
    /\ LET source_id == job.source_ids[cursor] IN
       IF source_id \notin DOMAIN Registry
       THEN cursor' = cursor + 1 /\ run_pc' = "loop"
       ELSE IF ~Registry[source_id].is_active
            THEN cursor' = cursor + 1 /\ run_pc' = "loop"
            ELSE cursor' = cursor /\ run_pc' = "fetch"
    /\ UNCHANGED <<raw_files, parsed_files, metadata_files, task, job, task_results, component_vars>>

\* The synthetic TaskResult of lines 144-152.
FailureResult(source_id) ==
    [source_id |-> source_id, status |-> "failed", success |-> FALSE,
     error_message |-> "source_error", document_id |-> NoId, duplicate_of |-> NoId]

\* Variant of FetchDocuments without the except clause of _process_source:
\* the exception reaches run_ingestion_job, which fails the job.
FetchDocumentsUncaught ==
    /\ run_pc = "fetch"
    /\ LET source_id == job.source_ids[cursor] IN
       \/ /\ _get_fetcher_class(Registry[source_id].name) # "BaseFetcher"
          /\ run_pc' = "docs"
          /\ UNCHANGED <<cursor, job, task_results>>
       \/ /\ job' = [job EXCEPT !.status = "failed", !.error_message = "source_error"]
          /\ run_pc' = "done"
          /\ UNCHANGED <<cursor, task_results>>
    /\ UNCHANGED <<raw_files, parsed_files, metadata_files, task, component_vars>>

\* _process_source lines 119-129: fetcher class, construction, health
\* check and fetch_documents.  BaseFetcher is abstract and cannot be
\* constructed; any of the calls may raise.
FetchDocuments ==
    /\ run_pc = "fetch"
    /\ LET source_id == job.source_ids[cursor] IN
       \/ /\ _get_fetcher_class(Registry[source_id].name) # "BaseFetcher"
          /\ run_pc' = "docs"
          /\ UNCHANGED <<cursor, task_results>>
       \/ /\ task_results' = Append(task_results, FailureResult(source_id))
          /\ cursor' = cursor + 1
          /\ run_pc' = "loop"
    /\ UNCHANGED <<raw_files, parsed_files, metadata_files, task, job, component_vars>>

\* _process_source lines 132-133: the next fetch result is handed to
\* _process_document.
ProcessDocument ==
    /\ run_pc = "docs"
    /\ LastStarted < MaxTasks
    /\ \E fetch_success \in BOOLEAN, content \in Contents :
          _process_document(LastStarted + 1, Registry[job.source_ids[cursor]].name,
                            fetch_success, content)
    /\ run_pc' = "await"
    /\ UNCHANGED <<job, cursor, task_results, component_vars>>

\* The TaskResult _process_document returns.
TaskResultOf(t, source_id) ==
    [source_id |-> source_id, status |-> task[t].status, success |-> task[t].success,
     error_message |-> task[t].error_message, document_id |-> task[t].document_id,
     duplicate_of |-> task[t].duplicate_of]

\* _process_source line 134: task_results.append(task_result); the frame
\* of the returned _process_document call (its Document object) is gone.
CollectResult ==
    /\ run_pc = "await"
    /\ task[LastStarted].pc = "done"
    /\ task_results' = Append(task_results, TaskResultOf(LastStarted, job.source_ids[cursor]))
    /\ task' = [task EXCEPT ![LastStarted] = [IdleTask EXCEPT !.pc = "returned"]]
    /\ run_pc' = "docs"
    /\ UNCHANGED <<raw_files, parsed_files, metadata_files, job, cursor, component_vars>>

\* _process_source line 154 after the last fetch result, and line 72.
SourceDone ==
    /\ run_pc = "docs"
    /\ cursor' = cursor + 1
    /\ run_pc' = "loop"
    /\ UNCHANGED <<raw_files, parsed_files, metadata_files, task, job, task_results, component_vars>>

\* Variant of FinalStatus without the elif branch of line 82.
FinalStatusNoPartial(successful_tasks, failed_tasks) ==
    IF failed_tasks = 0 THEN "completed" ELSE "failed"

\* The status chosen by lines 80-85.
FinalStatus(successful_tasks, failed_tasks) ==
    IF failed_tasks = 0 THEN "completed"
    ELSE IF successful_tasks > 0 THEN "completed"
    ELSE "failed"

\* Lines 74-85: counts, update_progress and the final status.
Finish ==
    /\ run_pc = "loop"
    /\ cursor > Len(job.source_ids)
    /\ LET successful_tasks == CountIf(task_results, TRUE)
           failed_tasks == CountIf(task_results, FALSE) IN
       job' = [job EXCEPT !.completed_tasks = successful_tasks,
                          !.failed_tasks = failed_tasks,
                          !.status = FinalStatus(successful_tasks, failed_tasks),
                          !.error_message =
                              IF FinalStatus(successful_tasks, failed_tasks) = "failed"
                              THEN "All tasks failed"
                              ELSE IF failed_tasks = 0 THEN "none" ELSE "Completed with failures"]
    /\ run_pc' = "done"
    /\ UNCHANGED <<raw_files, parsed_files, metadata_files, task, cursor, task_results, component_vars>>

\* Lines 90-96 and 111: the IngestionResult that run_ingestion_job builds
\* from the task results and returns; skipped_documents is not passed and
\* keeps its default.
IngestionResultOf(results) ==
    [total_documents_processed |-> Len(results),
     successful_documents |-> CountIf(results, TRUE),
     failed_documents |-> CountIf(results, FALSE),
     skipped_documents |-> 0]

\* ------------------------------------------------------------- fetchers
\* Endpoints configured on the source (source.config.endpoints).
MaxEndpoints == 1

\* The built-in document list of NISTFetcher / EUAIActFetcher / FPFFetcher
\* .fetch_documents, and the list of EUAIActFetcher.fetch_supporting_documents.
BuiltinDocuments == 3

SupportingDocuments == 2

\* @retry(stop=stop_after_attempt(3), ...) on BaseFetcher._fetch_url.
stop_after_attempt == 3

\* What one client.get + raise_for_status can do: a 2xx response with some
\* content type, or an exception (HTTPStatusError for 4xx/5xx, transport
\* error, InvalidURL).
ContentTypes == {"application/pdf", "text/html; charset=utf-8", "text/plain", "image/png"}

Transient == {"http_5xx", "network_error"}

Permanent == {"http_4xx", "malformed_url"}

\* BaseFetcher._get_extension_from_content_type
_get_extension_from_content_type(content_type) ==
    CASE content_type = "application/pdf" -> "pdf"
      [] content_type = "text/html; charset=utf-8" -> "html"
      [] content_type = "text/plain" -> "txt"
      [] OTHER -> "bin"

\* Variant of _fetch_url_raises in which the body lets the exception out
\* (no except clause), so that the retry decorator sees it.
_fetch_url_reraises(outcome) == outcome \notin ContentTypes

\* Whether the body of _fetch_url raises for an outcome of the GET: the
\* except clause of lines 120-135 turns every exception into a returned
\* FetchResult, so the body never raises.
_fetch_url_raises(outcome) == FALSE

\* The FetchResult the body of _fetch_url returns.
FetchResultOf(url, outcome) ==
    IF outcome \in ContentTypes
    THEN [url |-> url, success |-> TRUE, content_type |-> outcome,
          file_extension |-> _get_extension_from_content_type(outcome)]
    ELSE [url |-> url, success |-> FALSE, content_type |-> "none", file_extension |-> "none"]

\* BaseFetcher.__init__ sets source, settings and client; the fetcher has
\* no attribute logger (the module has a global logger).
has_logger == FALSE

\* fetch_documents logs through self.logger in both branches of
\* `if result.success`; fetch_supporting_documents does not log.
UsesSelfLogger(method) == method = "fetch_documents"

IdleFetch ==
    [pc |-> "idle", method |-> "fetch_documents", n_urls |-> 0, i |-> 1,
     outcomes |-> <<>>, waits |-> 0, result |-> [url |-> 0, success |-> FALSE, content_type |-> "none", file_extension |-> "none"], results |-> <<>>,
     error |-> "none"]

\* Entry of the method: the document list is built (lines 14-37).
FetchStart ==
    /\ fetch.pc = "idle"
    /\ \E method \in {"fetch_documents", "fetch_supporting_documents"}, n_endpoints \in 0..MaxEndpoints :
          fetch' = [fetch EXCEPT
                      !.pc = "fetch_url", !.method = method,
                      !.n_urls = IF method = "fetch_documents"
                                 THEN BuiltinDocuments + n_endpoints
                                 ELSE SupportingDocuments]
    /\ UNCHANGED <<engine_vars, parse, chunk, quality, browser, pager, workflow>>

\* One attempt of _fetch_url for the current URL under the retry
\* decorator: the body is called; if it raised, tenacity waits and calls
\* it again, up to stop_after_attempt calls, then raises RetryError.
HttpGet ==
    /\ fetch.pc = "fetch_url"
    /\ \E outcome \in (ContentTypes \cup Transient \cup Permanent) :
          LET outs == Append(fetch.outcomes, outcome) IN
          IF _fetch_url_raises(outcome)
          THEN IF Len(outs) < stop_after_attempt
               THEN fetch' = [fetch EXCEPT !.outcomes = outs, !.waits = @ + 1]
               ELSE fetch' = [fetch EXCEPT !.outcomes = outs, !.pc = "raised",
                                           !.error = "RetryError"]
          ELSE fetch' = [fetch EXCEPT !.outcomes = outs, !.pc = "record",
                                      !.result = FetchResultOf(fetch.i, outcome)]
    /\ UNCHANGED <<engine_vars, parse, chunk, quality, browser, pager, workflow>>

\* The rest of the loop body: metadata update, logging, results.append,
\* and the return after the last URL.
Record ==
    /\ fetch.pc = "record"
    /\ IF UsesSelfLogger(fetch.method) /\ ~has_logger
       THEN fetch' = [fetch EXCEPT !.pc = "raised", !.error = "AttributeError"]
       ELSE fetch' = [fetch EXCEPT
                        !.results = Append(@, fetch.result),
                        !.i = @ + 1, !.outcomes = <<>>, !.waits = 0,
                        !.pc = IF fetch.i < fetch.n_urls THEN "fetch_url" ELSE "done"]
    /\ UNCHANGED <<engine_vars, parse, chunk, quality, browser, pager, workflow>>

\* ------------------------------------------------ extraction strategies
\* The library call each parser method wraps: trafilatura.extract,
\* BeautifulSoup.get_text, fitz page.get_text, pdfplumber extract_text,
\* pytesseract.image_to_string.
Strategies == {"trafilatura", "beautifulsoup", "pymupdf", "pdfplumber", "tesseract"}

\* What a library call yields: it raises, yields None or "" ("empty"),
\* yields text of which BaseParser._clean_text leaves nothing but
\* whitespace ("blank"), or yields text; a text is described by the
\* features of the cleaned text that _calculate_quality_score reads:
\* short (len < 100), structured (more than 10 lines), noisy (more than
\* 30% of the characters neither alphanumeric nor whitespace).
NonText(kind) == [kind |-> kind, short |-> FALSE, structured |-> FALSE, noisy |-> FALSE]

\* ParseResult.quality_score = None.
NoScore == -1

\* Quality scores are kept in units of 1/ScoreUnit, which makes every
\* product of _calculate_quality_score exact (score = 1.0 is ScoreUnit).
ScoreUnit == 10000

\* `if quality_score < 0.6` of HTMLParser.parse.
HtmlQualityThreshold == 6000

\* `if quality_score < 0.5` of PDFParser.parse.
PdfQualityThreshold == 5000

\* method_scores of _calculate_quality_score, in tenths.
method_scores(extraction_method) ==
    CASE extraction_method = "direct_text" -> 10
      [] extraction_method = "html_parsing" -> 9
      [] extraction_method = "pdf_text" -> 8
      [] extraction_method = "ocr" -> 6
      [] extraction_method = "fallback" -> 4
      [] OTHER -> 5

\* BaseParser._calculate_quality_score
_calculate_quality_score(text, extraction_method) ==
    IF text.kind # "text" THEN 0
    ELSE LET s1 == IF text.short THEN (ScoreUnit * 5) \div 10 ELSE ScoreUnit
             s2 == IF text.structured THEN (s1 * 11) \div 10 ELSE s1
             s3 == IF text.noisy THEN (s2 * 7) \div 10 ELSE s2
             s4 == (s3 * method_scores(extraction_method)) \div 10
         IN  IF s4 < ScoreUnit THEN s4 ELSE ScoreUnit

\* The text _parse_pdf_with_ocr builds when tesseract finds nothing on
\* the pages: the "--- Page N ---" markers it writes itself.
PageMarkers == [kind |-> "text", short |-> TRUE, structured |-> FALSE, noisy |-> TRUE]

\* The cleaned text a parser method hands to DocumentContent.
CleanedText(strategy, fmt, outcome) ==
    IF strategy = "tesseract" /\ fmt = "pdf" /\ outcome.kind # "text"
    THEN PageMarkers
    ELSE outcome

\* Variant of validate_raw_text_raises without the validator.
validate_raw_text_accepts(raw_text) == FALSE

\* DocumentContent.validate_raw_text: `if not v.strip(): raise ValueError`.
validate_raw_text_raises(raw_text) == raw_text.kind # "text"

\* ParseResult.extraction_method of a parser method.
ExtractionMethod(strategy, fmt) ==
    IF strategy = "tesseract"
    THEN (IF fmt = "pdf" THEN "ocr_pdf" ELSE "ocr_image")
    ELSE strategy

ParseFailure(extraction_method, calls) ==
    [success |-> FALSE, text |-> NonText("none"), extraction_method |-> extraction_method,
     quality_score |-> NoScore, calls |-> calls]

\* One parser method (_parse_with_trafilatura, _parse_with_beautifulsoup,
\* _parse_with_pymupdf, _parse_with_pdfplumber, _parse_pdf_with_ocr,
\* _parse_image_with_ocr): its try block catches every exception,
\* the one of the DocumentContent validator included.
StrategyResult(strategy, fmt, outcome) ==
    LET method == ExtractionMethod(strategy, fmt)
        cleaned == CleanedText(strategy, fmt, outcome)
    IN  IF outcome.kind = "raises" THEN ParseFailure(method, <<strategy>>)
        ELSE IF strategy = "trafilatura" /\ outcome.kind = "empty"
             THEN ParseFailure(method, <<strategy>>)
        ELSE IF validate_raw_text_raises(cleaned) THEN ParseFailure(method, <<strategy>>)
        ELSE [success |-> TRUE, text |-> cleaned, extraction_method |-> method,
              quality_score |-> NoScore, calls |-> <<strategy>>]

\* Variant of PreferSecond that takes the second result whatever it scores.
PreferSecondAlways(second_quality, first_quality) == TRUE

\* `if bs_quality > quality_score` / `if pdfplumber_quality > quality_score`.
PreferSecond(second_quality, first_quality) == second_quality > first_quality

\* HTMLParser.parse and PDFParser.parse have the same shape: the first
\* method; if its result scores below the threshold, the second method,
\* kept if it scores higher; if the first method fails, the second.
TwoMethodParse(first, second, threshold, scoring, failed, fmt, outcomes) ==
    LET r1 == StrategyResult(first, fmt, outcomes[first])
        r2 == StrategyResult(second, fmt, outcomes[second])
        q1 == _calculate_quality_score(r1.text, scoring)
        q2 == _calculate_quality_score(r2.text, scoring)
    IN  IF r1.success
        THEN IF q1 < threshold
             THEN IF r2.success /\ PreferSecond(q2, q1)
                  THEN [r2 EXCEPT !.quality_score = q2, !.calls = <<first, second>>]
                  ELSE [r1 EXCEPT !.quality_score = q1, !.calls = <<first, second>>]
             ELSE [r1 EXCEPT !.quality_score = q1]
        ELSE IF r2.success
             THEN [r2 EXCEPT !.quality_score = q2, !.calls = <<first, second>>]
             ELSE ParseFailure(failed, <<first, second>>)

\* HTMLParser.parse
HTMLParser_parse(fmt, outcomes) ==
    TwoMethodParse("trafilatura", "beautifulsoup", HtmlQualityThreshold,
                   "html_parsing", "html_failed", fmt, outcomes)

\* PDFParser.parse
PDFParser_parse(fmt, outcomes) ==
    TwoMethodParse("pymupdf", "pdfplumber", PdfQualityThreshold,
                   "pdf_text", "pdf_failed", fmt, outcomes)

\* OCRParser.parse: _parse_pdf_with_ocr or _parse_image_with_ocr; no
\* quality score is set.
OCRParser_parse(fmt, outcomes) == StrategyResult("tesseract", fmt, outcomes["tesseract"])

parser_parse(parser, fmt, outcomes) ==
    CASE parser = "PDFParser"  -> PDFParser_parse(fmt, outcomes)
      [] parser = "HTMLParser" -> HTMLParser_parse(fmt, outcomes)
      [] parser = "OCRParser"  -> OCRParser_parse(fmt, outcomes)

\* The methods that parsers accepting a format may call.
UsedStrategies(fmt) ==
    CASE fmt = "pdf" -> {"pymupdf", "pdfplumber"} \cup (IF ocr_enabled THEN {"tesseract"} ELSE {})
      [] fmt = "html" -> {"trafilatura", "beautifulsoup"}
      [] fmt = "image" -> IF ocr_enabled THEN {"tesseract"} ELSE {}
      [] OTHER -> {}

IdleParse ==
    [pc |-> "idle", fmt |-> "txt", outcomes |-> [s \in Strategies |-> NonText("raises")],
     i |-> 1, attempts |-> <<>>, result |-> ParseFailure("none", <<>>)]

\* One iteration of the loop of IngestionEngine._parse_document: the
\* parser is asked whether it can parse, and if so parses; the first
\* result with success is returned.
TryParser ==
    /\ parse.pc = "loop"
    /\ parse.i <= Len(Parsers)
    /\ LET parser == Parsers[parse.i] IN
       IF can_parse(parser, parse.fmt)
       THEN LET r == parser_parse(parser, parse.fmt, parse.outcomes) IN
            parse' = [parse EXCEPT
                        !.attempts = Append(@, [parser |-> parser, result |-> r]),
                        !.i = IF r.success THEN @ ELSE @ + 1,
                        !.pc = IF r.success THEN "done" ELSE "loop",
                        !.result = IF r.success THEN r ELSE @]
       ELSE parse' = [parse EXCEPT !.i = @ + 1]
    /\ UNCHANGED <<engine_vars, fetch, chunk, quality, browser, pager, workflow>>

\* After the loop: "No suitable parser found or all parsers failed".
NoParserSucceeded ==
    /\ parse.pc = "loop"
    /\ parse.i > Len(Parsers)
    /\ parse' = [parse EXCEPT !.pc = "done", !.result = ParseFailure("no_parser", <<>>)]
    /\ UNCHANGED <<engine_vars, fetch, chunk, quality, browser, pager, workflow>>

\* -------------------------------------------------------------- chunking
\* ContentProcessor (processors/content_processor.py).  A string is a
\* sequence of characters over {"a", ".", " "}; the letter stands for any character
\* that is neither a full stop nor whitespace, the space for whitespace.
MaxTextLen == 4

MaxWordsPerChunk == 2

Strings == UNION {[1..n -> {"a", ".", " "}] : n \in 0..MaxTextLen}

\* str.lstrip / str.rstrip / str.strip
RECURSIVE lstrip(_)
lstrip(s) ==
    IF s = <<>> THEN <<>>
    ELSE IF Head(s) = " " THEN lstrip(Tail(s)) ELSE s

RECURSIVE rstrip(_)
rstrip(s) ==
    IF s = <<>> THEN <<>>
    ELSE IF s[Len(s)] = " " THEN rstrip(SubSeq(s, 1, Len(s) - 1)) ELSE s

strip(s) == rstrip(lstrip(s))

\* The index of the first space of s, or Len(s) + 1.
FirstSpace(s) ==
    CHOOSE k \in 1..(Len(s) + 1) :
        /\ k = Len(s) + 1 \/ s[k] = " "
        /\ \A j \in 1..(k - 1) : s[j] # " "

\* str.split(): the words of s.
RECURSIVE split(_)
split(s) ==
    LET t == lstrip(s) IN
    IF t = <<>> THEN <<>>
    ELSE <<SubSeq(t, 1, FirstSpace(t) - 1)>> \o split(SubSeq(t, FirstSpace(t), Len(t)))

\* sep.join(parts)
RECURSIVE join(_, _)
join(sep, parts) ==
    IF parts = <<>> THEN <<>>
    ELSE IF Len(parts) = 1 THEN parts[1]
    ELSE parts[1] \o sep \o join(sep, Tail(parts))

\* The positions of s where the separator '. ' occurs.
SeparatorAt(s) == {k \in 1..(Len(s) - 1) : s[k] = "." /\ s[k + 1] = " "}

\* str.split('. '): left to right, non-overlapping.
RECURSIVE split_sentences(_)
split_sentences(s) ==
    IF SeparatorAt(s) = {} THEN <<s>>
    ELSE LET k == CHOOSE k \in SeparatorAt(s) : \A j \in SeparatorAt(s) : k <= j IN
         <<SubSeq(s, 1, k - 1)>> \o split_sentences(SubSeq(s, k + 2, Len(s)))

\* ContentProcessor._clean_text: ' '.join(text_content.split())
_clean_text(text_content) == join(<<" ">>, split(text_content))

\* The decimal digits of a natural number.
RECURSIVE Digits(_)
Digits(n) == IF n < 10 THEN <<n>> ELSE Digits(n \div 10) \o <<n % 10>>

RECURSIVE ZeroPad(_, _)
ZeroPad(digits, width) ==
    IF Len(digits) >= width THEN digits ELSE ZeroPad(<<0>> \o digits, width)

\* The doc_id handed to _create_chunks.
doc_id == "doc"

\* f"{doc_id}_chunk_{chunk_index:03d}": the id is the document id, the
\* literal "_chunk_" and the index in at least three digits.
format_chunk_id(document_id, chunk_index) ==
    [document_id |-> document_id, infix |-> "_chunk_", digits |-> ZeroPad(Digits(chunk_index), 3)]

\* ContentProcessor._create_chunk
_create_chunk(content, document_id, chunk_index) ==
    [chunk_id |-> format_chunk_id(document_id, chunk_index),
     content |-> strip(content),
     chunk_index |-> chunk_index,
     word_count |-> Len(split(strip(content))),
     char_count |-> Len(strip(content))]

\* Variant of next_chunk_index that does not advance.
next_chunk_index_stuck(chunk_index) == chunk_index

\* `chunk_index += 1`
next_chunk_index(chunk_index) == chunk_index + 1

IdleChunk ==
    [pc |-> "idle", text_content |-> <<>>, max_words_per_chunk |-> 1, cleaned_text |-> <<>>,
     sentences |-> <<>>, k |-> 1, current_chunk |-> <<>>, chunk_index |-> 0, chunks |-> <<>>]

\* process_and_save_content line 29 and _create_chunks lines 61-64: the
\* text is cleaned and split into sentences.
CleanText ==
    /\ chunk.pc = "raw"
    /\ chunk' = [chunk EXCEPT
                   !.pc = "loop",
                   !.cleaned_text = _clean_text(chunk.text_content),
                   !.sentences = split_sentences(_clean_text(chunk.text_content))]
    /\ UNCHANGED <<engine_vars, fetch, parse, quality, browser, pager, workflow>>

\* One iteration of the for loop of _create_chunks (lines 66-74).
NextSentence ==
    /\ chunk.pc = "loop"
    /\ chunk.k <= Len(chunk.sentences)
    /\ LET sentence == chunk.sentences[chunk.k]
           test_chunk == chunk.current_chunk \o sentence \o <<".", " ">>
       IN  IF Len(split(test_chunk)) > chunk.max_words_per_chunk /\ chunk.current_chunk # <<>>
           THEN chunk' = [chunk EXCEPT
                            !.chunks = Append(@, _create_chunk(chunk.current_chunk, doc_id,
                                                               chunk.chunk_index)),
                            !.current_chunk = sentence \o <<".", " ">>,
                            !.chunk_index = next_chunk_index(@),
                            !.k = @ + 1]
           ELSE chunk' = [chunk EXCEPT !.current_chunk = test_chunk, !.k = @ + 1]
    /\ UNCHANGED <<engine_vars, fetch, parse, quality, browser, pager, workflow>>

\* After the loop (lines 76-80): the final chunk, and the return.
FinalChunk ==
    /\ chunk.pc = "loop"
    /\ chunk.k > Len(chunk.sentences)
    /\ chunk' = [chunk EXCEPT
                   !.pc = "done",
                   !.chunks = IF strip(chunk.current_chunk) # <<>>
                              THEN Append(@, _create_chunk(chunk.current_chunk, doc_id,
                                                           chunk.chunk_index))
                              ELSE @]
    /\ UNCHANGED <<engine_vars, fetch, parse, quality, browser, pager, workflow>>

\* ------------------------------------------------------- content quality
\* ContentQualityService.analyze_content_quality.  A chunk text is a bag
\* of fragments joined by single spaces: the counts the function takes do
\* not depend on the order of the fragments, and no listed term spans two
\* fragments.  A fragment is described by what the function counts in it.
MaxRepeat == 4

Fragment(words, chars) ==
    [words |-> words, chars |-> chars, html_tags |-> 0, lt |-> 0, html_entities |-> 0,
     sentences |-> 0, nav |-> {}, wh_nav |-> {}, compliance |-> {}, structure |-> {},
     marker |-> FALSE]

\* The fragments that can occur several times in a text.
Repeatable == <<"shall", "purpose", "ok.", "the", "&amp;">>

\* At most one of these is in a text: a navigation keyword, a tag, a
\* markup boilerplate marker, a CSS class name holding 7 navigation
\* indicators, a phrase holding 4 site-specific navigation indicators, a
\* run of 51 tags, a run of 21 '<'.
Extras == {"none", "menu", "<b>", "viewport",
           "site-header-mobile-menu-dropdown-overlay-hamburger",
           "Cabinet First Lady Second Gentleman Briefing Room",
           "51 x <b>", "21 x <"}

\* What re.findall, str.count, str.split and the `in` tests of lines
\* 15-59 find in one occurrence of a fragment.
FragmentFeatures(f) ==
    CASE f = "shall"   -> [Fragment(1, 5) EXCEPT !.compliance = {"shall"}]
      [] f = "purpose" -> [Fragment(1, 7) EXCEPT !.structure = {"purpose"}]
      [] f = "ok."     -> [Fragment(1, 3) EXCEPT !.sentences = 1]
      [] f = "the"     -> Fragment(1, 3)
      [] f = "&amp;"   -> [Fragment(1, 5) EXCEPT !.html_entities = 1]
      [] f = "menu"    -> [Fragment(1, 4) EXCEPT !.nav = {"menu"}]
      [] f = "<b>"     -> [Fragment(1, 3) EXCEPT !.html_tags = 1, !.lt = 1]
      [] f = "viewport" -> [Fragment(1, 8) EXCEPT !.marker = TRUE]
      [] f = "site-header-mobile-menu-dropdown-overlay-hamburger" ->
            [Fragment(1, 50) EXCEPT
                !.nav = {"menu", "header", "site-header", "mobile-menu", "hamburger",
                         "overlay", "dropdown"}]
      [] f = "Cabinet First Lady Second Gentleman Briefing Room" ->
            [Fragment(7, 43) EXCEPT
                !.wh_nav = {"Cabinet", "First Lady", "Second Gentleman", "Briefing Room"}]
      [] f = "51 x <b>" -> [Fragment(51, 153) EXCEPT !.html_tags = 51, !.lt = 51]
      [] f = "21 x <"   -> [Fragment(1, 21) EXCEPT !.lt = 21]
      [] OTHER -> Fragment(0, 0)

RepeatableSet == {Repeatable[k] : k \in 1..Len(Repeatable)}

\* How often a fragment occurs in a text.
Occurrences(text, f) ==
    IF f \in RepeatableSet THEN text.occ[f]
    ELSE IF f = text.extra /\ f # "none" THEN 1 ELSE 0

AllFragments == RepeatableSet \cup (Extras \ {"none"})

RECURSIVE SumOver(_, _, _)
SumOver(fragments, text, field) ==
    IF fragments = {} THEN 0
    ELSE LET f == CHOOSE g \in fragments : TRUE IN
         Occurrences(text, f) * FragmentFeatures(f)[field] + SumOver(fragments \ {f}, text, field)

\* len(re.findall(...)), chunk_text.count('<'), len(chunk_text.split()),
\* sum(len(word) ...): every occurrence counts.
CountAll(text, field) == SumOver(AllFragments, text, field)

\* sum(1 for term in terms if term in chunk_text): a listed term counts
\* once when it is somewhere in the text.
CountPresent(text, field) ==
    Cardinality(UNION {FragmentFeatures(f)[field] :
                          f \in {g \in AllFragments : Occurrences(text, g) > 0}})

\* Variant of CountPresent that counts every occurrence of a listed term.
CountTerms(text, field) ==
    LET PerFragment(f) == Cardinality(FragmentFeatures(f)[field])
        RECURSIVE Total(_)
        Total(fragments) ==
            IF fragments = {} THEN 0
            ELSE LET f == CHOOSE g \in fragments : TRUE IN
                 Occurrences(text, f) * PerFragment(f) + Total(fragments \ {f})
    IN  Total(AllFragments)

\* Lines 14-59: the counts.
Indicators(text) ==
    [html_tags |-> CountAll(text, "html_tags"),
     html_entities |-> CountAll(text, "html_entities"),
     lt |-> CountAll(text, "lt"),
     nav_score |-> CountPresent(text, "nav"),
     wh_nav_score |-> CountPresent(text, "wh_nav"),
     sentences |-> CountAll(text, "sentences"),
     words |-> CountAll(text, "words"),
     chars |-> CountAll(text, "chars"),
     compliance_score |-> CountPresent(text, "compliance"),
     structure_score |-> CountPresent(text, "structure"),
     marker |-> \E f \in AllFragments : Occurrences(text, f) > 0 /\ FragmentFeatures(f).marker]

\* max(len(chunk_text.split()), 1)
WordsOrOne(c) == IF c.words > 1 THEN c.words ELSE 1

\* Scores are exact fractions over the denominator 2 * max(words, 1),
\* which holds sentences * 1.5 and (avg_word_length - 3) * 3 exactly.
Denominator(c) == 2 * WordsOrOne(c)

\* Lines 63-70: the sum before max(0, min(100, ...)), times Denominator.
PreClampSum(c) ==
    Denominator(c) * (c.compliance_score * 15 + c.structure_score * 10
                        - c.html_tags * 5 - c.html_entities * 3
                        - c.nav_score * 8 - c.wh_nav_score * 10)
    + c.sentences * 3 * WordsOrOne(c)
    + 6 * (c.chars - 3 * WordsOrOne(c))

\* Lines 74-82.
is_obvious_noise(c) ==
    \/ c.html_tags > 50
    \/ c.nav_score > 5
    \/ c.wh_nav_score > 3
    \/ c.lt > 20
    \/ c.marker

\* max(0, min(100, x)) on fractions over d.
Clamp(x, d) == IF x < 0 THEN 0 ELSE IF x > 100 * d THEN 100 * d ELSE x

\* `quality_score = min(quality_score, 10)` under is_obvious_noise.
CapNoise(x, d) == IF x < 10 * d THEN x ELSE 10 * d

\* round(x / d, 1) in tenths: the nearest tenth; a value half way between
\* two tenths goes to either (it depends on the float at hand).
Round1(x, d) ==
    {r \in {(10 * x) \div d, (10 * x) \div d + 1} :
        2 * (10 * x - r * d) <= d /\ 2 * (r * d - 10 * x) <= d}

IdleQuality ==
    [pc |-> "idle", text |-> [occ |-> [f \in RepeatableSet |-> 0], extra |-> "none"],
     counts |-> Indicators([occ |-> [f \in RepeatableSet |-> 0], extra |-> "none"]), result |-> [quality_score |-> 0, pre_clamp |-> 0, score |-> 0, is_likely_content |-> FALSE, is_likely_noise |-> FALSE, is_obvious_navigation |-> FALSE]]

\* Lines 14-59 of analyze_content_quality.
CountIndicators ==
    /\ quality.pc = "text"
    /\ quality' = [quality EXCEPT !.pc = "counted", !.counts = Indicators(quality.text)]
    /\ UNCHANGED <<engine_vars, fetch, parse, chunk, browser, pager, workflow>>

\* Lines 61-100: the score, the cap, the flags and the returned dict.
ScoreChunk ==
    /\ quality.pc = "counted"
    /\ LET c == quality.counts
           d == Denominator(c)
           noise == is_obvious_noise(c)
           clamped == Clamp(PreClampSum(c), d)
           score == IF noise THEN CapNoise(clamped, d) ELSE clamped
       IN  \E r \in Round1(score, d) :
              quality' = [quality EXCEPT
                            !.pc = "done",
                            !.result = [quality_score |-> r,
                                        pre_clamp |-> PreClampSum(c),
                                        score |-> score,
                                        is_likely_content |-> score > 40 * d /\ ~noise,
                                        is_likely_noise |-> score < 20 * d \/ noise,
                                        is_obvious_navigation |-> noise]]
    /\ UNCHANGED <<engine_vars, fetch, parse, chunk, browser, pager, workflow>>

\* ------------------------------------------------------ headless browser

IdleBrowser ==
    [pc |-> "idle", caller |-> "none", url |-> FALSE, in_scope |-> FALSE,
     launched |-> 0, open |-> 0, released_by |-> "none", text |-> "none",
     raised_at |-> "none", result |-> "none"]

\* An exception propagates out of the scope body.
BrowserRaise(b, step) == [b EXCEPT !.pc = "raised", !.raised_at = step]

\* Variant of async_playwright_exit in which leaving the scope leaves the
\* launched browser running.
async_playwright_exit_detached(b) == [b EXCEPT !.in_scope = FALSE]

\* __aexit__ of async_playwright(): the Playwright driver is stopped, and
\* with it every browser it launched that is still open.
async_playwright_exit(b) ==
    [b EXCEPT !.in_scope = FALSE,
              !.open = 0,
              !.released_by = IF b.open > 0 THEN "scope_exit" ELSE b.released_by]

\* html_extractor.py 31-36, playwright_strategy.py 41-52: parse without a
\* url returns a failure at once; otherwise the scope is entered.
EnterScope ==
    /\ browser.pc = "call"
    /\ IF browser.caller = "parse" /\ ~browser.url
       THEN browser' = [browser EXCEPT !.pc = "returned", !.result = "url_required"]
       ELSE browser' = [browser EXCEPT !.pc = "scope", !.in_scope = TRUE]
    /\ UNCHANGED <<engine_vars, fetch, parse, chunk, quality, pager, workflow>>

\* p.chromium.launch(headless=True).
Launch ==
    /\ browser.pc = "scope"
    /\ \/ browser' = [browser EXCEPT !.pc = "launched",
                                     !.launched = @ + 1, !.open = @ + 1]
       \/ browser' = BrowserRaise(browser, "launch")
    /\ UNCHANGED <<engine_vars, fetch, parse, chunk, quality, pager, workflow>>

\* browser.new_page().
NewPage ==
    /\ browser.pc = "launched"
    /\ \/ browser' = [browser EXCEPT !.pc = "page"]
       \/ browser' = BrowserRaise(browser, "new_page")
    /\ UNCHANGED <<engine_vars, fetch, parse, chunk, quality, pager, workflow>>

\* page.goto(url, wait_until='networkidle').
Goto ==
    /\ browser.pc = "page"
    /\ \/ browser' = [browser EXCEPT !.pc = "loaded"]
       \/ browser' = BrowserRaise(browser, "goto")
    /\ UNCHANGED <<engine_vars, fetch, parse, chunk, quality, pager, workflow>>

\* page.wait_for_timeout(...).
SettleWait ==
    /\ browser.pc = "loaded"
    /\ \/ browser' = [browser EXCEPT !.pc = "settled"]
       \/ browser' = BrowserRaise(browser, "wait_for_timeout")
    /\ UNCHANGED <<engine_vars, fetch, parse, chunk, quality, pager, workflow>>

\* _extract_with_best_extractor (html_extractor.py 62-78) catches what an
\* extractor raises and returns a text of more than 100 characters or "";
\* _extract_content_by_site (playwright_strategy.py 101-109) returns any
\* text or raises.
Extract ==
    /\ browser.pc = "settled"
    /\ \/ \E text \in {"none", "short", "long"} :
             /\ browser.caller = "extract_content" => text # "short"
             /\ browser' = [browser EXCEPT !.pc = "extracted", !.text = text]
       \/ /\ browser.caller = "parse"
          /\ browser' = BrowserRaise(browser, "extract")
    /\ UNCHANGED <<engine_vars, fetch, parse, chunk, quality, pager, workflow>>

\* html_extractor.py 48: page.content() for the raw file.
PageContent ==
    /\ browser.pc = "extracted"
    /\ browser.caller = "extract_content"
    /\ \/ browser' = [browser EXCEPT !.pc = "content"]
       \/ browser' = BrowserRaise(browser, "content")
    /\ UNCHANGED <<engine_vars, fetch, parse, chunk, quality, pager, workflow>>

\* html_extractor.py 49, playwright_strategy.py 57: browser.close().
Close ==
    /\ \/ browser.pc = "content"
       \/ browser.pc = "extracted" /\ browser.caller = "parse"
    /\ \/ browser' = [browser EXCEPT !.pc = "closed", !.open = 0,
                                     !.released_by = "close"]
       \/ browser' = BrowserRaise(browser, "close")
    /\ UNCHANGED <<engine_vars, fetch, parse, chunk, quality, pager, workflow>>

\* html_extractor.py 51-55: the raw file is written and the text returned;
\* playwright_strategy.py 59-90: under 100 characters a failure, otherwise
\* the DocumentContent and a success.
BuildResult ==
    /\ browser.pc = "closed"
    /\ \/ browser' = [browser EXCEPT
                        !.pc = "leaving",
                        !.result = IF browser.caller = "extract_content"
                                   THEN browser.text
                                   ELSE IF browser.text = "long" THEN "success"
                                   ELSE "no_substantial_content"]
       \/ browser' = BrowserRaise(browser, "finish")
    /\ UNCHANGED <<engine_vars, fetch, parse, chunk, quality, pager, workflow>>

\* The scope is left, by the return or by the exception.
ScopeExit ==
    /\ browser.pc \in {"leaving", "raised"}
    /\ browser' = [async_playwright_exit(browser) EXCEPT
                      !.pc = IF browser.pc = "leaving" THEN "returned" ELSE "except"]
    /\ UNCHANGED <<engine_vars, fetch, parse, chunk, quality, pager, workflow>>

\* html_extractor.py 57-60 with _fallback_extraction (80-92): the page is
\* fetched with requests, "" when that fails too; playwright_strategy.py
\* 92-99: a failure ParseResult.
ExceptHandler ==
    /\ browser.pc = "except"
    /\ IF browser.caller = "extract_content"
       THEN \E text \in {"long", "short", "none"} :
               browser' = [browser EXCEPT !.pc = "returned", !.result = text]
       ELSE browser' = [browser EXCEPT !.pc = "returned", !.result = "playwright_failed"]
    /\ UNCHANGED <<engine_vars, fetch, parse, chunk, quality, pager, workflow>>

\* ------------------------------------------------------ chunk pagination
\* DocumentService.get_document_chunks (services/document_service.py) behind
\* GET /{document_id}/chunks (api/documents.py), called by a client that
\* starts at 0 and follows pagination.next_start with one limit.
MaxChunks == 3

MaxLimit == 3

ChunkLists == SeqsUpTo({"a", "b"}, MaxChunks)

\* None as next_start.
NoStart == -1

IdlePager ==
    [pc |-> "idle", document |-> [found |-> FALSE, chunks |-> <<>>, content_chunks |-> <<>>], limit |-> 1, start |-> 0,
     collected |-> <<>>, pages |-> 0, pagination |-> [start |-> 0, limit |-> 0, total |-> 0, has_more |-> FALSE, next_start |-> NoStart]]

\* Lines 133-135: "chunks", or "content_chunks" when that is empty.
StoredChunks(document) ==
    IF document.chunks # <<>> THEN document.chunks ELSE document.content_chunks

\* chunks[start:start + limit]
Slice(chunks, start, limit) ==
    LET stop == IF start + limit < Len(chunks) THEN start + limit ELSE Len(chunks)
    IN  IF stop <= start THEN <<>> ELSE [i \in 1..(stop - start) |-> chunks[start + i]]

\* Variant of has_more that also holds when the page ends at the last chunk.
has_more_inclusive(start, limit, total) == start + limit <= total

\* Line 149.
has_more(start, limit, total) == start + limit < total

\* Lines 126-152.
get_document_chunks(document, start, limit) ==
    LET chunks == StoredChunks(document)
        total_chunks == Len(chunks)
    IN  [chunks |-> Slice(chunks, start, limit),
         pagination |-> [start |-> start,
                         limit |-> limit,
                         total |-> total_chunks,
                         has_more |-> has_more(start, limit, total_chunks),
                         next_start |-> IF has_more(start, limit, total_chunks)
                                        THEN start + limit ELSE NoStart]]

\* Lines 130-131 and api/documents.py 78-80: no such document, a 404.
NotFound ==
    /\ pager.pc = "paging"
    /\ ~pager.document.found
    /\ pager' = [pager EXCEPT !.pc = "not_found"]
    /\ UNCHANGED <<engine_vars, fetch, parse, chunk, quality, browser, workflow>>

\* One request; the client keeps the chunks and asks for next_start next,
\* or stops when next_start is None.
GetPage ==
    /\ pager.pc = "paging"
    /\ pager.document.found
    /\ LET result == get_document_chunks(pager.document, pager.start, pager.limit)
       IN  pager' = [pager EXCEPT
                       !.collected = @ \o result.chunks,
                       !.pages = @ + 1,
                       !.pagination = result.pagination,
                       !.start = IF result.pagination.next_start = NoStart
                                 THEN @ ELSE result.pagination.next_start,
                       !.pc = IF result.pagination.next_start = NoStart
                              THEN "done" ELSE "paging"]
    /\ UNCHANGED <<engine_vars, fetch, parse, chunk, quality, browser, workflow>>

\* ------------------------------------------------------- event workflow
\* workflows/compliance_workflow.py: the functions extract_content,
\* process_content and save_document for one document, each started by the
\* event the one before it sends.
MaxAttempts == 2

\* Line 177: len(text_content.strip()) < 100
MinTextLength == 100

ProcessEvent == "compliance/document.process"

SaveEvent == "compliance/document.save"

CompletedEvent == "compliance/document.completed"

IdleWorkflow ==
    [pc |-> "idle", content_type |-> "text/html", text |-> [body |-> 0, padding |-> 0],
     steps |-> <<>>, events |-> <<>>, chunks |-> "none", parsed_doc |-> "none",
     parsed_written |-> FALSE, metadata_written |-> FALSE, attempts |-> 0]

\* Variant of substantial that measures the text as extracted.
substantial_unstripped(text) ==
    text.body + text.padding # 0 /\ text.body + text.padding >= MinTextLength

\* Line 177 negated: text_content and len(text_content.strip()) >= 100
substantial(text) ==
    text.body + text.padding # 0 /\ text.body >= MinTextLength

StepRun(w, name) == [w EXCEPT !.steps = Append(@, name)]

\* A step raises: the run of the function fails and Inngest starts it
\* again, the finished steps kept, until the attempts are used up.
StepRaise(w) ==
    IF w.attempts + 1 >= MaxAttempts
    THEN [w EXCEPT !.attempts = @ + 1, !.pc = "function_failed"]
    ELSE [w EXCEPT !.attempts = @ + 1]

\* Lines 158-175 with _extract_pdf_step / _extract_html_step (282-300),
\* which turn an exception into "".
ExtractStep ==
    /\ workflow.pc = "extract"
    /\ \E text \in [body : {0, MinTextLength - 1, MinTextLength}, padding : {0, 1}] :
          workflow' = [StepRun(workflow,
                               IF workflow.content_type = "application/pdf"
                               THEN "extract_pdf" ELSE "extract_html")
                         EXCEPT !.pc = "extracted", !.text = text]
    /\ UNCHANGED <<engine_vars, fetch, parse, chunk, quality, browser, pager>>

\* Lines 177-200: too little text ends the function; otherwise
\* compliance/document.process is sent.
ExtractGuard ==
    /\ workflow.pc = "extracted"
    /\ IF substantial(workflow.text)
       THEN workflow' = [workflow EXCEPT !.pc = "process",
                                         !.events = Append(@, ProcessEvent)]
       ELSE workflow' = [workflow EXCEPT !.pc = "extraction_failed"]
    /\ UNCHANGED <<engine_vars, fetch, parse, chunk, quality, browser, pager>>

\* Line 219 with _clean_text_step (302-304).
CleanTextStep ==
    /\ workflow.pc = "process"
    /\ workflow' = [StepRun(workflow, "clean_text") EXCEPT !.pc = "cleaned"]
    /\ UNCHANGED <<engine_vars, fetch, parse, chunk, quality, browser, pager>>

\* Line 220 with _create_chunks_step (306-314): an exception gives [].
CreateChunksStep ==
    /\ workflow.pc = "cleaned"
    /\ \E chunks \in {"chunks", "empty"} :
          workflow' = [StepRun(workflow, "create_chunks")
                         EXCEPT !.pc = "chunked", !.chunks = chunks]
    /\ UNCHANGED <<engine_vars, fetch, parse, chunk, quality, browser, pager>>

\* Line 221 with _create_document_step (316-332): an exception gives {}.
CreateDocumentStep ==
    /\ workflow.pc = "chunked"
    /\ \E parsed_doc \in {"document", "empty"} :
          workflow' = [StepRun(workflow, "create_document")
                         EXCEPT !.pc = "created", !.parsed_doc = parsed_doc]
    /\ UNCHANGED <<engine_vars, fetch, parse, chunk, quality, browser, pager>>

\* Lines 223-231: compliance/document.save is sent.
SendSave ==
    /\ workflow.pc = "created"
    /\ workflow' = [workflow EXCEPT !.pc = "save", !.events = Append(@, SaveEvent)]
    /\ UNCHANGED <<engine_vars, fetch, parse, chunk, quality, browser, pager>>

\* Lines 250-253: parsed_doc['document_id'] is a KeyError on {}.
SaveLookup ==
    /\ workflow.pc = "save"
    /\ IF workflow.parsed_doc = "document"
       THEN workflow' = [workflow EXCEPT !.pc = "save_parsed"]
       ELSE workflow' = StepRaise(workflow)
    /\ UNCHANGED <<engine_vars, fetch, parse, chunk, quality, browser, pager>>

\* Line 256 with _save_parsed_doc_step (333-343).
SaveParsedDocStep ==
    /\ workflow.pc = "save_parsed"
    /\ \/ workflow' = [StepRun(workflow, "save_parsed_doc")
                         EXCEPT !.pc = "save_metadata", !.parsed_written = TRUE]
       \/ workflow' = StepRaise(workflow)
    /\ UNCHANGED <<engine_vars, fetch, parse, chunk, quality, browser, pager>>

\* Line 257 with _save_metadata_step (345-367).
SaveMetadataStep ==
    /\ workflow.pc = "save_metadata"
    /\ \/ workflow' = [StepRun(workflow, "save_metadata")
                         EXCEPT !.pc = "saved", !.metadata_written = TRUE]
       \/ workflow' = StepRaise(workflow)
    /\ UNCHANGED <<engine_vars, fetch, parse, chunk, quality, browser, pager>>

\* Lines 259-271: compliance/document.completed is sent.
SendCompleted ==
    /\ workflow.pc = "saved"
    /\ workflow' = [workflow EXCEPT !.pc = "completed",
                                    !.events = Append(@, CompletedEvent)]
    /\ UNCHANGED <<engine_vars, fetch, parse, chunk, quality, browser, pager>>

\* ------------------------------------------------------ components at rest

\* Every component but one is idle.
AtRestExcept(component) ==
    /\ component # "fetch" => fetch = IdleFetch
    /\ component # "parse" => parse = IdleParse
    /\ component # "chunk" => chunk = IdleChunk
    /\ component # "quality" => quality = IdleQuality
    /\ component # "browser" => browser = IdleBrowser
    /\ component # "pager" => pager = IdlePager
    /\ component # "workflow" => workflow = IdleWorkflow

\* --------------------------------------------------------- specification
NoJob ==
    [status |-> "pending", source_ids |-> <<>>, completed_tasks |-> 0,
     failed_tasks |-> 0, skipped_tasks |-> 0, error_message |-> "none"]

\* The storage directories at start: empty, or one earlier metadata file.
InitStorage ==
    /\ raw_files = {}
    /\ parsed_files = {}
    /\ metadata_files \in {{}} \cup {{r} : r \in {[doc_id |-> SeedId, source_name |-> s, file_hash |-> "h1", doc_id_node |-> "str"] : s \in SourceNames}}
    /\ task = [t \in Tasks |-> IdleTask]

\* _process_document invocations over one storage, overlapping freely.
Init ==
    /\ InitStorage
    /\ job = NoJob
    /\ run_pc = "none"
    /\ cursor = 1
    /\ task_results = <<>>
    /\ AtRestExcept("none")

Steps ==
    \/ \E t \in Tasks : CheckDuplicate(t)
    \/ \E t \in Tasks : SaveRaw(t)
    \/ \E t \in Tasks : Parse(t)
    \/ \E t \in Tasks : SaveParsed(t)
    \/ \E t \in Tasks : SaveMetadata(t)

Next ==
    \/ \E t \in Tasks, s \in SourceNames, f \in BOOLEAN, c \in Contents : Start(t, s, f, c)
    \/ Steps

Spec == Init /\ [][Next]_vars

\* _process_document invocations that run one after the other.
NextSeq ==
    \/ \E t \in Tasks, s \in SourceNames, f \in BOOLEAN, c \in Contents : StartSeq(t, s, f, c)
    \/ Steps

SpecSeq == Init /\ [][NextSeq]_vars

\* One run of run_ingestion_job over a job of up to MaxSources sources.
InitJob ==
    /\ InitStorage
    /\ job \in {[NoJob EXCEPT !.source_ids = ids] : ids \in SeqsUpTo(SourceIds, MaxSources)}
    /\ run_pc = "pending"
    /\ cursor = 1
    /\ task_results = <<>>
    /\ AtRestExcept("none")

NextJob ==
    \/ JobStart
    \/ SelectSource
    \/ FetchDocuments
    \/ ProcessDocument
    \/ CollectResult
    \/ SourceDone
    \/ Finish
    \/ Steps

SpecJob == InitJob /\ [][NextJob]_vars

\* One call of a fetcher method over _fetch_url.
InitFetch ==
    /\ raw_files = {}
    /\ parsed_files = {}
    /\ metadata_files = {}
    /\ task = [t \in Tasks |-> IdleTask]
    /\ job = NoJob
    /\ run_pc = "none"
    /\ cursor = 1
    /\ task_results = <<>>
    /\ AtRestExcept("none")

NextFetch ==
    \/ FetchStart
    \/ HttpGet
    \/ Record

SpecFetch == InitFetch /\ [][NextFetch]_vars

\* The engine at rest, for the components examined on their own.
EngineAtRest ==
    /\ raw_files = {}
    /\ parsed_files = {}
    /\ metadata_files = {}
    /\ task = [t \in Tasks |-> IdleTask]
    /\ job = NoJob
    /\ run_pc = "none"
    /\ cursor = 1
    /\ task_results = <<>>

\* One call of _parse_document: a format and, for each method a parser
\* of that format may call, what its library call yields.
InitParse ==
    /\ EngineAtRest
    /\ AtRestExcept("parse")
    /\ \E fmt \in Formats :
       \E outcomes \in [Strategies -> ([kind : {"text"}, short : BOOLEAN, structured : BOOLEAN, noisy : BOOLEAN] \cup {NonText(k) : k \in {"raises", "empty", "blank"}})] :
          /\ \A s \in Strategies \ UsedStrategies(fmt) : outcomes[s] = NonText("raises")
          /\ parse = [IdleParse EXCEPT !.pc = "loop", !.fmt = fmt, !.outcomes = outcomes]

NextParse ==
    \/ TryParser
    \/ NoParserSucceeded

SpecParse == InitParse /\ [][NextParse]_vars

\* One call of process_and_save_content up to the chunk list.
InitChunk ==
    /\ EngineAtRest
    /\ AtRestExcept("chunk")
    /\ \E text \in Strings, max_words \in 1..MaxWordsPerChunk :
          chunk = [IdleChunk EXCEPT !.pc = "raw", !.text_content = text,
                                    !.max_words_per_chunk = max_words]

NextChunk ==
    \/ CleanText
    \/ NextSentence
    \/ FinalChunk

SpecChunk == InitChunk /\ [][NextChunk]_vars

\* One call of analyze_content_quality on a chunk text.
InitQuality ==
    /\ EngineAtRest
    /\ AtRestExcept("quality")
    /\ \E occ \in [RepeatableSet -> 0..MaxRepeat], extra \in Extras :
          quality = [IdleQuality EXCEPT !.pc = "text", !.text = [occ |-> occ, extra |-> extra]]

NextQuality ==
    \/ CountIndicators
    \/ ScoreChunk

SpecQuality == InitQuality /\ [][NextQuality]_vars

\* One call of HTMLExtractor.extract_content or PlaywrightHTMLStrategy.parse,
\* the engine at rest.
InitBrowser ==
    /\ EngineAtRest
    /\ AtRestExcept("browser")
    /\ \E caller \in {"extract_content", "parse"}, url \in BOOLEAN :
          browser = [IdleBrowser EXCEPT !.pc = "call", !.caller = caller, !.url = url]

NextBrowser ==
    \/ EnterScope \/ Launch \/ NewPage \/ Goto \/ SettleWait \/ Extract
    \/ PageContent \/ Close \/ BuildResult \/ ScopeExit \/ ExceptHandler

SpecBrowser == InitBrowser /\ [][NextBrowser]_vars

\* A client pages through one stored document from start 0.
InitPager ==
    /\ EngineAtRest
    /\ AtRestExcept("pager")
    /\ \E found \in BOOLEAN, chunks \in ChunkLists, content_chunks \in ChunkLists,
          limit \in (1..MaxLimit) :
          /\ ~found => chunks = <<>> /\ content_chunks = <<>>
          /\ pager = [IdlePager EXCEPT
                        !.pc = "paging",
                        !.document = [found |-> found, chunks |-> chunks,
                                      content_chunks |-> content_chunks],
                        !.limit = limit]

NextPager == NotFound \/ GetPage

\* The client goes on asking as long as it was given a next_start.
SpecPagerLive == (InitPager /\ [][NextPager]_vars) /\ WF_vars(NextPager)

\* One compliance/document.extract event, for a pdf or an html url.
InitWorkflow ==
    /\ EngineAtRest
    /\ AtRestExcept("workflow")
    /\ \E content_type \in {"application/pdf", "text/html"} :
          workflow = [IdleWorkflow EXCEPT !.pc = "extract", !.content_type = content_type]

NextWorkflow ==
    \/ ExtractStep \/ ExtractGuard \/ CleanTextStep \/ CreateChunksStep
    \/ CreateDocumentStep \/ SendSave \/ SaveLookup \/ SaveParsedDocStep
    \/ SaveMetadataStep \/ SendCompleted

SpecWorkflow == InitWorkflow /\ [][NextWorkflow]_vars

TypeOK ==
    /\ metadata_files \subseteq [doc_id : Tasks \cup {SeedId}, source_name : SourceNames,
                                 file_hash : Contents, doc_id_node : DocIdNodes]
    /\ \A t \in Tasks : task[t].doc_status \in {"pending", "fetching", "parsing", "processed", "failed", "skipped"} \cup {"none"}
    /\ \A t \in Tasks : task[t].status \in {"running", "completed", "failed"}
    /\ job.status \in {"pending", "running", "completed", "failed"}

\* ------------------------------------------------------------ properties
FetchedOk(t) == task[t].doc_id # NoId

Done(t) == task[t].pc = "done"

IsDuplicateHit(t) == task[t].duplicate_of # NoId

HasRecord(t) ==
    \E r \in metadata_files : r.doc_id = task[t].doc_id /\ r.source_name = task[t].source

WroteNothing(t) ==
    /\ \A f \in raw_files : f.doc_id # task[t].doc_id
    /\ \A f \in parsed_files : f.doc_id # task[t].doc_id
    /\ \A r \in metadata_files : r.doc_id # task[t].doc_id

\* C1: when ingestions follow one another (dedup enabled), the metadata
\* store holds at most one record per (file_hash, source_name); a later
\* document of the same source with the same hash resolves to the id of
\* the record already stored, is reported as a duplicate and writes no raw
\* file, parsed file or metadata record of its own.
C1_OneRecordPerHashAndSource ==
    /\ \A r1, r2 \in metadata_files :
          (r1.file_hash = r2.file_hash /\ r1.source_name = r2.source_name) => r1 = r2
    /\ \A t \in Tasks :
          (FetchedOk(t) /\ task[t].pc # "check") =>
             \A r \in metadata_files :
                ((r.doc_id = SeedId \/ r.doc_id < t)
                    /\ r.file_hash = task[t].content /\ r.source_name = task[t].source)
                   => (task[t].duplicate_of = r.doc_id /\ Done(t) /\ task[t].success)
    /\ \A t \in Tasks : IsDuplicateHit(t) => WroteNothing(t)

\* C2: for two overlapping invocations on the same (content hash, source),
\* check_duplicate-then-save_metadata is serialized: never do both miss
\* the dedup check and both persist a metadata record.
C2_NoDoublePersist ==
    \A t1, t2 \in Tasks :
        (t1 # t2 /\ FetchedOk(t1) /\ FetchedOk(t2)
           /\ task[t1].content = task[t2].content /\ task[t1].source = task[t2].source)
        => ~(HasRecord(t1) /\ HasRecord(t2))

\* C3: once a record with a given file_hash is saved for a source, every
\* later check_duplicate(hash, source) returns one and the same document
\* id, whatever the later content of the metadata directory (also with
\* several records carrying that hash).
C3_StableDuplicateId ==
    [][\A h \in Contents, s \in SourceNames :
          (\E r \in metadata_files : r.file_hash = h /\ r.source_name = s) =>
             /\ Cardinality(check_duplicate(h, s)) = 1
             /\ check_duplicate(h, s) # {NoId}
             /\ (check_duplicate(h, s))' = check_duplicate(h, s)]_vars

\* C4: two ingestions in sequence of the same bytes for the same source
\* give exactly one PROCESSED document and one document in status SKIPPED
\* whose duplicate_of is the first document's id, whatever the first
\* run's parse outcome was.
C4_OneProcessedOneSkipped ==
    \A t1, t2 \in Tasks :
        (t1 < t2 /\ Done(t1) /\ Done(t2) /\ FetchedOk(t1) /\ FetchedOk(t2)
           /\ task[t1].content = task[t2].content /\ task[t1].source = task[t2].source
           /\ HasRecord(t1))
        => /\ task[t1].doc_status = "processed"
           /\ task[t2].doc_status = "skipped"
           /\ task[t2].duplicate_of = task[t1].doc_id

\* C5: dedup is scoped by source name: a document is reported as a
\* duplicate only of a record of its own source, and a document fetched
\* for a source that holds no record of that hash gets its own id and its
\* own metadata record, whatever other sources hold.
C5_ScopeIsolation ==
    /\ \A t \in Tasks : IsDuplicateHit(t) =>
          \E r \in metadata_files :
              /\ r.doc_id = task[t].duplicate_of
              /\ r.source_name = task[t].source
              /\ r.file_hash = task[t].content
    /\ \A t, u \in Tasks :
          (FetchedOk(t) /\ FetchedOk(u) /\ task[t].source # task[u].source)
             => task[t].duplicate_of # task[u].doc_id
    /\ \A t \in Tasks :
          (Done(t) /\ task[t].status = "completed" /\ ~IsDuplicateHit(t))
             => \E r \in metadata_files :
                    /\ r.doc_id = task[t].doc_id
                    /\ r.source_name = task[t].source
                    /\ r.file_hash = task[t].content

C5_Witness ==
    \E t, u \in Tasks :
        /\ task[t].source # task[u].source /\ task[t].content = task[u].content
        /\ Done(t) /\ Done(u) /\ HasRecord(t) /\ HasRecord(u)
        /\ ~IsDuplicateHit(t) /\ ~IsDuplicateHit(u)

\* C6: the dedup check precedes any parsing; on a hit the document goes to
\* the terminal status SKIPPED and no parser is invoked for it.
C6_HitIsSkippedUnparsed ==
    \A t \in Tasks :
        /\ (task[t].pc \in {"idle", "check"} => task[t].parse_calls = 0)
        /\ (IsDuplicateHit(t) =>
               /\ Done(t)
               /\ task[t].parse_calls = 0
               /\ task[t].doc_status = "skipped")

\* The transitions of the per-document state machine of the claim C7.
StatusStep(from, to) ==
    \/ from = to
    \/ from = "none" /\ to \in {"pending", "fetching"}
    \/ from = "pending" /\ to = "fetching"
    \/ from = "fetching" /\ to \in {"skipped", "parsing"}
    \/ from = "parsing" /\ to \in {"processed", "failed"}

\* C7: the statuses of a document follow PENDING -> FETCHING -> (SKIPPED |
\* PARSING -> (PROCESSED | FAILED)), terminal statuses are never left, and
\* a task that ends as failed does not leave its document in FETCHING or
\* PARSING.
C7_StatusMachine ==
    [][\A t \in Tasks :
          /\ StatusStep(task[t].doc_status, task'[t].doc_status)
          /\ (task'[t].pc = "done" /\ task'[t].status = "failed")
                => task'[t].doc_status \notin {"fetching", "parsing"}]_vars

\* C8: a document is PROCESSED only after a successful parse; after any
\* other parse outcome it is FAILED, carries the extraction error message,
\* and the task result reports the failure with that message.
C8_ParseOutcomeSurfaced ==
    \A t \in Tasks :
        /\ (task[t].doc_status = "processed" => task[t].parse_success)
        /\ (task[t].pc \in {"save_metadata", "done"} /\ task[t].doc_status \in {"parsing", "processed", "failed"}
              /\ ~task[t].parse_success)
              => (task[t].doc_status = "failed" /\ task[t].doc_error = "no_parser_succeeded")
        /\ (Done(t) /\ task[t].doc_status = "failed")
              => (~task[t].success /\ task[t].error_message = task[t].doc_error)

C10_SourceFailureIsolated ==
    [][/\ (run_pc = "fetch" /\ run_pc' # "docs") =>
              /\ task_results' = Append(task_results, FailureResult(job.source_ids[cursor]))
              /\ ~FailureResult(job.source_ids[cursor]).success
              /\ FailureResult(job.source_ids[cursor]).document_id = NoId
              /\ cursor' = cursor + 1
              /\ run_pc' = "loop"
              /\ job' = job
       /\ Len(task_results') >= Len(task_results)
       /\ SubSeq(task_results', 1, Len(task_results)) = task_results
       /\ run_pc' = "done" => cursor' = Len(job.source_ids) + 1
       /\ (run_pc = "fetch" /\ _get_fetcher_class(Registry[job.source_ids[cursor]].name) = "BaseFetcher")
              => run_pc' # "docs"]_vars

C10_Witness ==
    /\ run_pc = "done"
    /\ \E i, j \in 1..Len(task_results) :
          /\ i < j
          /\ task_results[i].error_message = "source_error"
          /\ task_results[j].success
          /\ task_results[j].document_id # NoId

\* C11: fetch_documents ends by returning exactly one FetchResult per
\* document URL of the source (built-in and configured), in the order of
\* the URLs; a failed fetch of one URL does not keep the other URLs from
\* being fetched and returned.
C11_OneResultPerUrl ==
    (fetch.method = "fetch_documents" /\ fetch.pc \in {"done", "raised"}) =>
        /\ fetch.pc = "done"
        /\ Len(fetch.results) = fetch.n_urls
        /\ \A k \in 1..Len(fetch.results) : fetch.results[k].url = k

\* C12: when every attempt for a URL fails transiently (HTTP 5xx, network
\* error), _fetch_url makes exactly stop_after_attempt (3) GET attempts,
\* with a wait between consecutive attempts, and then returns a FetchResult
\* with success=false.
C12_ThreeAttemptsOnTransientFailure ==
    (/\ fetch.pc = "record" \/ fetch.error = "RetryError"
     /\ \A k \in 1..Len(fetch.outcomes) : fetch.outcomes[k] \in Transient) =>
        /\ fetch.pc = "record"
        /\ Len(fetch.outcomes) = stop_after_attempt
        /\ fetch.waits = stop_after_attempt - 1
        /\ ~fetch.result.success

\* C13: a permanent fetch error (HTTP 4xx, malformed URL) is not retried:
\* _fetch_url makes exactly one GET attempt for the URL, without a wait,
\* and returns a FetchResult with success=false for it.
C13_PermanentErrorNotRetried ==
    (fetch.outcomes # <<>> /\ fetch.outcomes[1] \in Permanent) =>
        /\ Len(fetch.outcomes) = 1
        /\ fetch.waits = 0
        /\ fetch.pc # "fetch_url"
        /\ fetch.error # "RetryError"
        /\ fetch.result.url = fetch.i
        /\ ~fetch.result.success

C13_Witness ==
    /\ fetch.pc = "record"
    /\ fetch.i = 2
    /\ fetch.outcomes = <<"http_4xx">>
    /\ ~fetch.result.success

\* ------------------------------------------------- extraction properties
ParseDone == parse.pc = "done"

\* The methods the cascade has called so far.
StrategiesInvoked ==
    {s \in Strategies :
        \E k \in 1..Len(parse.attempts) :
           \E j \in 1..Len(parse.attempts[k].result.calls) :
              parse.attempts[k].result.calls[j] = s}

ParsersInvoked == {parse.attempts[k].parser : k \in 1..Len(parse.attempts)}

FailureTags == {"no_parser", "html_failed", "pdf_failed", "ocr_failed"}

C15_SuccessIffText ==
    /\ \A k \in 1..Len(parse.attempts) :
          parse.attempts[k].result.success <=> parse.attempts[k].result.text.kind = "text"
    /\ ParseDone => (parse.result.success <=> parse.result.text.kind = "text")

C15_Witness ==
    /\ ParseDone
    /\ parse.fmt = "pdf"
    /\ parse.outcomes["pymupdf"].kind = "blank"
    /\ parse.outcomes["pdfplumber"].kind = "empty"
    /\ Len(parse.attempts) = 2
    /\ ~parse.attempts[1].result.success
    /\ parse.result.success

HtmlMethods == <<"trafilatura", "beautifulsoup">>

HtmlWithText == {k \in 1..Len(HtmlMethods) : parse.outcomes[HtmlMethods[k]].kind = "text"}

HtmlScore(k) == _calculate_quality_score(parse.outcomes[HtmlMethods[k]], "html_parsing")

HtmlAdequate == {k \in HtmlWithText : HtmlScore(k) >= HtmlQualityThreshold}

\* C16: the HTML strategies are tried in descending priority; the result
\* is that of the first strategy scoring at least 0.6; when none does but
\* some strategy returned text, the result is the highest-scoring of those
\* that returned text, never a failure.
C16_FirstAdequateElseBest ==
    (ParseDone /\ parse.fmt = "html") =>
        /\ \E n \in 0..Len(HtmlMethods) : parse.attempts[1].result.calls = SubSeq(HtmlMethods, 1, n)
        /\ HtmlAdequate # {} =>
              LET first == CHOOSE k \in HtmlAdequate : \A j \in HtmlAdequate : k <= j IN
              /\ parse.result.success
              /\ parse.result.extraction_method = HtmlMethods[first]
              /\ parse.result.quality_score = HtmlScore(first)
        /\ (HtmlAdequate = {} /\ HtmlWithText # {}) =>
              /\ parse.result.success
              /\ \E k \in HtmlWithText :
                    /\ parse.result.extraction_method = HtmlMethods[k]
                    /\ parse.result.quality_score = HtmlScore(k)
                    /\ \A j \in HtmlWithText : HtmlScore(j) <= HtmlScore(k)

C16_Witness ==
    /\ ParseDone
    /\ parse.fmt = "html"
    /\ HtmlWithText = {1, 2}
    /\ HtmlAdequate = {}
    /\ HtmlScore(2) > HtmlScore(1)
    /\ parse.result.extraction_method = "beautifulsoup"

\* C17: for a PDF the direct-text strategy runs first, and whenever its
\* result scores below 0.5 (a scanned PDF without embedded text included)
\* the OCR strategy is invoked.
C17_LowScoreInvokesOcr ==
    (/\ ParseDone
     /\ parse.fmt = "pdf"
     /\ parse.attempts[1].result.quality_score < PdfQualityThreshold) =>
        /\ parse.attempts[1].parser = "PDFParser"
        /\ "tesseract" \in StrategiesInvoked

ChunkContents == [k \in 1..Len(chunk.chunks) |-> chunk.chunks[k].content]

WithoutSpaces(s) == SelectSeq(s, LAMBDA c : c # " ")

\* C19: the chunks _create_chunks produces carry chunk_index 0..N-1 in
\* list order, chunk_id "{document_id}_chunk_{index:03d}", and no two
\* chunks share a chunk_id.
C19_ChunkIndexing ==
    \A k \in 1..Len(chunk.chunks) :
        /\ chunk.chunks[k].chunk_index = k - 1
        /\ chunk.chunks[k].chunk_id =
              [document_id |-> doc_id, infix |-> "_chunk_",
               digits |-> <<(k - 1) \div 100, ((k - 1) \div 10) % 10, (k - 1) % 10>>]
        /\ \A j \in 1..Len(chunk.chunks) :
              j # k => chunk.chunks[j].chunk_id # chunk.chunks[k].chunk_id

C19_Witness ==
    /\ chunk.pc = "done"
    /\ Len(chunk.chunks) >= 2
    /\ chunk.chunks[2].chunk_index = 1

\* C20: the chunk contents, joined in index order by single spaces, are
\* the cleaned source text again, whitespace apart.
C20_ChunksReconstructText ==
    chunk.pc = "done" =>
        WithoutSpaces(join(<<" ">>, ChunkContents)) = WithoutSpaces(chunk.cleaned_text)

\* C21: every chunk the chunker produces has word_count at most
\* max_words_per_chunk, whatever the text (a single sentence longer than
\* the limit, or a text without sentence boundary, included).
C21_ChunkSizeBounded ==
    \A k \in 1..Len(chunk.chunks) :
        chunk.chunks[k].word_count <= chunk.max_words_per_chunk

\* --------------------------------------------------- quality properties
QualityDone == quality.pc = "done"

\* C22: analyze_content_quality returns a score within [0,100]; under an
\* obvious-noise condition the score is at most 10, is_likely_noise is
\* true and is_likely_content is false; otherwise is_likely_content is
\* (score > 40) and is_likely_noise is (score < 20) of the returned score;
\* the two flags are never both true.
C22_ScoreAndFlags ==
    QualityDone =>
        LET r == quality.result IN
        /\ r.quality_score \in 0..1000
        /\ is_obvious_noise(quality.counts) =>
              r.quality_score <= 100 /\ r.is_likely_noise /\ ~r.is_likely_content
        /\ ~is_obvious_noise(quality.counts) =>
              /\ r.is_likely_content <=> r.quality_score > 400
              /\ r.is_likely_noise <=> r.quality_score < 200
        /\ ~(r.is_likely_content /\ r.is_likely_noise)

\* C23: every occurrence of a listed term counts in the sum before the
\* clamp: +15 for each occurrence of a compliance term, -8 for each
\* occurrence of a navigation keyword, +10 for each structural marker.
C23_EveryOccurrenceCounts ==
    QualityDone =>
        LET c == quality.counts IN
        quality.result.pre_clamp =
            Denominator(c) * (CountTerms(quality.text, "compliance") * 15
                                + CountTerms(quality.text, "structure") * 10
                                - c.html_tags * 5 - c.html_entities * 3
                                - CountTerms(quality.text, "nav") * 8
                                - c.wh_nav_score * 10)
            + c.sentences * 3 * WordsOrOne(c)
            + 6 * (c.chars - 3 * WordsOrOne(c))

\* ------------------------------------------------------- job properties
JobDone == run_pc = "done"

DuplicateHits == {i \in 1..Len(task_results) : task_results[i].duplicate_of # NoId}

UnknownSourceReferenced ==
    \E k \in 1..Len(job.source_ids) : job.source_ids[k] \notin DOMAIN Registry

PersistenceFailure(r) ==
    /\ r.document_id = NoId
    /\ r.duplicate_of = NoId
    /\ r.error_message \notin {"fetch_error", "source_error"}

\* C26: a failing save_raw_content, save_parsed_content or save_metadata
\* fails the task of that document only, with the error message recorded;
\* the other documents and sources are still processed and the job is not
\* aborted.
C26_PersistenceErrorIsolated ==
    /\ \A i \in 1..Len(task_results) :
          PersistenceFailure(task_results[i]) =>
              /\ task_results[i].status = "failed"
              /\ ~task_results[i].success
              /\ task_results[i].error_message = "io_error"
    /\ \A t \in Tasks :
          (run_pc # "none" /\ task[t].pc = "done" /\ task[t].error_message = "io_error") =>
              run_pc = "await" /\ job.status = "running"
    /\ JobDone => cursor > Len(job.source_ids) /\ job.error_message # "io_error"

C26_Witness ==
    /\ JobDone
    /\ Len(task_results) = 2
    /\ PersistenceFailure(task_results[1])
    /\ task_results[1].source_id = "id_nist"
    /\ task_results[2].source_id = "id_fpf"
    /\ task_results[2].success
    /\ job.status = "completed"

\* C29: the artifacts _process_document leaves are consistent: a metadata
\* record of a document has a raw file of that document; a parsed file
\* belongs to a document whose parse succeeded; a duplicate_of value is the
\* id of a stored metadata record with the same file_hash under the same
\* source.
C29_ArtifactsConsistent ==
    /\ \A r \in metadata_files :
          r.doc_id \in Tasks => \E f \in raw_files : f.doc_id = r.doc_id
    /\ \A f \in parsed_files : task[f.doc_id].parse_success
    /\ \A t \in Tasks :
          task[t].duplicate_of # NoId =>
              \E r \in metadata_files :
                 /\ r.doc_id = task[t].duplicate_of
                 /\ r.file_hash = task[t].content
                 /\ r.source_name = task[t].source

C29_Witness ==
    /\ \A t \in Tasks : task[t].pc = "done"
    /\ task[1].duplicate_of = SeedId
    /\ \E r \in metadata_files : r.doc_id = 2
    /\ \E f \in parsed_files : f.doc_id = 2

\* ---------------------------------------------------- browser properties
BrowserDone == browser.pc = "returned"

\* C27: every headless browser that HTMLExtractor.extract_content or
\* PlaywrightHTMLStrategy.parse launches is released on every path, also
\* when navigation, the settle wait or the extraction raises: no execution
\* ends with a launched browser still open, nor does a browser stay open
\* once its scope is left.
C27_BrowserAlwaysReleased ==
    /\ BrowserDone => browser.open = 0
    /\ (browser.launched > 0 /\ ~browser.in_scope) => browser.open = 0
    /\ BrowserDone /\ browser.launched > 0 => browser.released_by # "none"

C27_Witness ==
    /\ BrowserDone
    /\ browser.launched = 1
    /\ browser.raised_at \in {"goto", "wait_for_timeout", "extract"}
    /\ browser.released_by = "scope_exit"

\* ------------------------------------------------- pagination properties
PagerDone == pager.pc = "done"

PagerStored == StoredChunks(pager.document)

PagesSoFar ==
    /\ pager.pages > 0 =>
          /\ pager.pagination.has_more <=>
                pager.pagination.start + pager.limit < Len(PagerStored)
          /\ pager.pagination.next_start = NoStart <=> ~pager.pagination.has_more
          /\ pager.pagination.total = Len(PagerStored)
    /\ Len(pager.collected) <= Len(PagerStored)
    /\ pager.collected = [i \in 1..Len(pager.collected) |-> PagerStored[i]]
    /\ PagerDone => pager.collected = PagerStored

\* C28: following next_start from start 0 with one limit >= 1 comes to an
\* end, next_start being None exactly when has_more is false, and has
\* then returned every stored chunk once and in stored order; has_more is
\* true exactly when start + limit < total.
C28_PaginationTerminatesComplete ==
    /\ []PagesSoFar
    /\ <>(pager.pc \in {"done", "not_found"})

C28_Witness ==
    /\ PagerDone
    /\ pager.pages = 2
    /\ pager.limit = 2
    /\ pager.document.chunks = <<>>
    /\ pager.collected = <<"a", "b", "a">>
    /\ pager.pagination.start = 2

\* --------------------------------------------------- workflow properties
Emitted(event) == \E i \in 1..Len(workflow.events) : workflow.events[i] = event

HasRun(name) == \E i \in 1..Len(workflow.steps) : workflow.steps[i] = name

StageOrder == <<ProcessEvent, SaveEvent, CompletedEvent>>

\* C30: per document the events come in order: compliance/document.process
\* only after an extraction that returned at least 100 characters of
\* trimmed text, compliance/document.save only after the chunking and the
\* document creation steps, compliance/document.completed only after the
\* parsed document and the metadata were written; with less text none of
\* the three is sent.
C30_StagesInOrder ==
    /\ Len(workflow.events) <= Len(StageOrder)
    /\ workflow.events = [i \in 1..Len(workflow.events) |-> StageOrder[i]]
    /\ Emitted(ProcessEvent) =>
          /\ HasRun("extract_pdf") \/ HasRun("extract_html")
          /\ workflow.text.body >= MinTextLength
    /\ Emitted(SaveEvent) => HasRun("create_chunks") /\ HasRun("create_document")
    /\ Emitted(CompletedEvent) =>
          /\ HasRun("save_parsed_doc") /\ workflow.parsed_written
          /\ HasRun("save_metadata") /\ workflow.metadata_written
    /\ (workflow.pc # "extract" /\ workflow.text.body < MinTextLength) =>
          workflow.events = <<>>

C30_Witness ==
    /\ workflow.pc = "completed"
    /\ workflow.events = StageOrder
    /\ workflow.text.padding = 1
    /\ workflow.attempts = 1
====
